---- MODULE Spec2Model ----
(***************************************************************************)
(* Model of the blog application blogicum (blog/models.py, blog/forms.py,  *)
(* blog/views.py): the entity store, the slug generator, PostForm          *)
(* validation, the post handlers, the public listings and the follow       *)
(* handlers.                                                               *)
(*                                                                         *)
(* Text is a sequence of one-character strings; "U0416" stands for the     *)
(* Cyrillic capital letter ZHE, which unidecode transliterates to "Zh".    *)
(* A primary key is a positive integer, 0 stands for None / NULL.          *)
(***************************************************************************)
EXTENDS Integers, Sequences, FiniteSets, TLC

VARIABLES
    locations,    \* table blog_location: pk = index, rows [name, slug, is_published]
    categories,   \* table blog_category: pk = index, rows [title, slug, is_published]
    posts,        \* table blog_post: pk -> [author, pub_date, is_published, location, category]
    nextPostId,   \* the next primary key of blog_post
    comments,     \* table blog_comment: pk -> [post, author, text]
    nextCommentId, \* the next primary key of blog_comment
    follows,      \* table blog_follow: pk -> [user, following]
    nextFollowId, \* the next primary key of blog_follow
    clock,        \* the current time, django.utils.timezone.now()
    workers,      \* the create_post requests in flight, one per server worker
    response      \* the outcome of the last request handled

vars == <<locations, categories, posts, nextPostId, comments, nextCommentId,
          follows, nextFollowId, clock, workers, response>>

----------------------------------------------------------------------------
(* Bounds of the model *)

MaxTime == 1
MaxPostId == 2
MaxFollowId == 3
MaxCommentId == 2

None == 0

Users == {"u1", "u2"}
Anonymous == "anon"
Viewers == Users \cup {Anonymous}

Times == 0..MaxTime

----------------------------------------------------------------------------
(* Text *)

Empty == <<>>

T_Tr == <<"T", "r">>
T_Punct == <<"-", "!">>
T_Zhe == <<"U0416", " ", "-", "r">>
T_zh == <<"z", "h", "-", "r">>
T_Blank == <<" ">>
T_Title == <<"p">>
T_a == <<"a">>
T_h == <<"h">>

\* str.strip(): leading and trailing whitespace removed
RECURSIVE LStrip(_)
LStrip(s) ==
    IF s # <<>> /\ Head(s) = " " THEN LStrip(Tail(s)) ELSE s

RECURSIVE RStrip(_)
RStrip(s) ==
    IF s # <<>> /\ s[Len(s)] = " " THEN RStrip(SubSeq(s, 1, Len(s) - 1)) ELSE s

Strip(s) == RStrip(LStrip(s))

\* unidecode.unidecode on one character: ASCII is kept, ZHE becomes "Zh"
UnidecodeChar(c) ==
    IF c = "U0416" THEN <<"Z", "h">> ELSE <<c>>

RECURSIVE Unidecode(_)
Unidecode(s) ==
    IF s = <<>> THEN <<>> ELSE UnidecodeChar(Head(s)) \o Unidecode(Tail(s))

LowerChar(c) ==
    CASE c = "T" -> "t"
      [] c = "Z" -> "z"
      [] OTHER -> c

Lower(s) == [i \in 1..Len(s) |-> LowerChar(s[i])]

\* \w of the regular expressions: letters, digits, underscore
IsWord(c) == c \in {"T", "Z", "t", "r", "z", "h", "a", "p", "_"}

\* [-\s] of the regular expressions
IsSep(c) == c \in {"-", " "}

KeepChar(c) == IsWord(c) \/ IsSep(c)

RECURSIVE DropSeps(_)
DropSeps(s) ==
    IF s # <<>> /\ IsSep(Head(s)) THEN DropSeps(Tail(s)) ELSE s

\* re.sub(r'[-\s]+', '-', text)
RECURSIVE Collapse(_)
Collapse(s) ==
    IF s = <<>> THEN <<>>
    ELSE IF IsSep(Head(s)) THEN <<"-">> \o Collapse(DropSeps(Tail(s)))
    ELSE <<Head(s)>> \o Collapse(Tail(s))

RECURSIVE LStripHyphen(_)
LStripHyphen(s) ==
    IF s # <<>> /\ Head(s) = "-" THEN LStripHyphen(Tail(s)) ELSE s

RECURSIVE RStripHyphen(_)
RStripHyphen(s) ==
    IF s # <<>> /\ s[Len(s)] = "-"
    THEN RStripHyphen(SubSeq(s, 1, Len(s) - 1)) ELSE s

generate_slug_nolower(text) ==
    RStripHyphen(LStripHyphen(Collapse(SelectSeq(Unidecode(text), KeepChar))))

generate_slug(text) ==
    RStripHyphen(LStripHyphen(Collapse(SelectSeq(Lower(Unidecode(text)), KeepChar))))

----------------------------------------------------------------------------
(* The entity store: blog/models.py *)

\* BaseModel.is_published: BooleanField(default=True)
DefaultIsPublished == TRUE

\* Location(name, slug): the row that objects.create() inserts
NewLocation(name, slug) ==
    [name |-> name, slug |-> slug, is_published |-> DefaultIsPublished]

\* Category(title, slug): the row that objects.create() inserts
NewCategory(title, slug) ==
    [title |-> title, slug |-> slug, is_published |-> DefaultIsPublished]

\* the names Category.objects.get()/filter() can resolve: the model's fields
CategoryFields == {"id", "pk", "title", "description", "slug", "is_published", "created_at"}

\* SlugField(unique=True): an INSERT with a slug some row has is refused
SlugTaken(table, slug) == \E i \in DOMAIN table : table[i].slug = slug

\* Location.objects.filter(name=name): the primary keys of the matching rows
LocationsNamed(locs, name) == {i \in DOMAIN locs : locs[i].name = name}

\* Category.objects.filter(title=title): the primary keys of the matching rows
CategoriesTitled(cats, title) == {i \in DOMAIN cats : cats[i].title = title}

\* Post(): the row that create_post saves
NewPost(author, pub_date, location, category) ==
    [author |-> author, pub_date |-> pub_date, is_published |-> DefaultIsPublished,
     location |-> location, category |-> category]

----------------------------------------------------------------------------
(* PostForm: blog/forms.py *)

ErrRequired == "required"
ErrInvalidChoice == "invalid_choice"
ErrLocationBoth == "choose only one of: location, location_user"
ErrLocationNone == "choose at least one of: location, location_user"
ErrCategoryBoth == "choose only one of: category, category_user"
ErrCategoryNone == "choose at least one of: category, category_user"

\* the fields' own cleaning (Form._clean_fields): CharField strips, a required
\* CharField refuses '', a ModelChoiceField refuses a pk outside its queryset
FieldErrors(locs, cats, data) ==
    (IF Strip(data.title) = Empty THEN {<<"title", ErrRequired>>} ELSE {})
    \cup (IF data.location # None /\ data.location \notin DOMAIN locs
          THEN {<<"location", ErrInvalidChoice>>} ELSE {})
    \cup (IF data.category # None /\ data.category \notin DOMAIN cats
          THEN {<<"category", ErrInvalidChoice>>} ELSE {})

\* cleaned_data after the fields' cleaning; .get() of a refused field is None
CleanedFields(locs, cats, data) ==
    [title |-> Strip(data.title),
     pub_date |-> data.pub_date,
     location_user |-> Strip(data.location_user),
     location |-> IF data.location \in DOMAIN locs THEN data.location ELSE None,
     category_user |-> Strip(data.category_user),
     category |-> IF data.category \in DOMAIN cats THEN data.category ELSE None]

\* PostForm.clean with the two tests of the location pair joined by "or"
PostFormClean_or(cleaned_data) ==
    (IF cleaned_data.location # None \/ cleaned_data.location_user # Empty
     THEN {<<"location", ErrLocationBoth>>}
     ELSE IF cleaned_data.location = None /\ cleaned_data.location_user = Empty
     THEN {<<"location", ErrLocationNone>>}
     ELSE {})
    \cup
    (IF cleaned_data.category # None /\ cleaned_data.category_user # Empty
     THEN {<<"category", ErrCategoryBoth>>}
     ELSE IF cleaned_data.category = None /\ cleaned_data.category_user = Empty
     THEN {<<"category", ErrCategoryNone>>}
     ELSE {})

\* PostForm.clean: the errors it adds
PostFormClean(cleaned_data) ==
    (IF cleaned_data.location # None /\ cleaned_data.location_user # Empty
     THEN {<<"location", ErrLocationBoth>>}
     ELSE IF cleaned_data.location = None /\ cleaned_data.location_user = Empty
     THEN {<<"location", ErrLocationNone>>}
     ELSE {})
    \cup
    (IF cleaned_data.category # None /\ cleaned_data.category_user # Empty
     THEN {<<"category", ErrCategoryBoth>>}
     ELSE IF cleaned_data.category = None /\ cleaned_data.category_user = Empty
     THEN {<<"category", ErrCategoryNone>>}
     ELSE {})

\* form.errors of a bound PostForm
PostFormErrors(locs, cats, data) ==
    FieldErrors(locs, cats, data) \cup PostFormClean(CleanedFields(locs, cats, data))

\* form.is_valid(): the form is bound (the request is a POST) and has no errors
PostFormIsValid(locs, cats, method, data) ==
    method = "POST" /\ PostFormErrors(locs, cats, data) = {}

----------------------------------------------------------------------------
(* Requests and responses *)

\* the part of a submitted post form that the response is filed with
NoForm ==
    [location |-> None, location_user |-> Empty,
     category |-> None, category_user |-> Empty]

FormOf(data) ==
    [location |-> data.location, location_user |-> data.location_user,
     category |-> data.category, category_user |-> data.category_user]

\* what a handler answers with; the fields a handler does not set keep these values
Resp(op, user, status) ==
    [op |-> op, user |-> user, status |-> status, exc |-> "", errors |-> {},
     post |-> None, target |-> None, profile |-> "", items |-> {}, created |-> {},
     is_subscriber |-> FALSE, method |-> "", form |-> NoForm,
     slug |-> Empty, comment |-> None, to |-> ""]

NoResponse == Resp("", Anonymous, "")

\* a create_post request as it enters the view
NewRequest(user, method, data) ==
    [pc |-> "validate", user |-> user, method |-> method, data |-> data,
     form |-> FormOf(data), location |-> None, category |-> None, created |-> {},
     exc |-> "", errors |-> {}, post |-> None]

Idle == [pc |-> "idle"]

Terminal == {"redirect", "render", "error"}

\* QuerySet.get() on the rows `ids`: the one row, or the exception raised
QueryGet(ids) ==
    IF Cardinality(ids) = 1 THEN [pk |-> CHOOSE i \in ids : TRUE, exc |-> ""]
    ELSE IF ids = {} THEN [pk |-> None, exc |-> "DoesNotExist"]
    ELSE [pk |-> None, exc |-> "MultipleObjectsReturned"]

\* Category.objects.get(**{field: value}): an unknown field name raises FieldError
CategoryGet(cats, field, value) ==
    IF field \notin CategoryFields THEN [pk |-> None, exc |-> "FieldError"]
    ELSE QueryGet(CategoriesTitled(cats, value))

----------------------------------------------------------------------------
(* create_post: blog/views.py, one database query or statement group per step *)

\* m = [locations, categories, posts, nextPostId, req]: the store and one request
Fail(m, exc) == [m EXCEPT !.req.pc = "error", !.req.exc = exc]

\* StepValidate that stores the free-text location before it rejects the form
StepValidate_persist(m) ==
    LET r == m.req
        name == Strip(r.data.location_user) IN
    IF PostFormIsValid(m.locations, m.categories, r.method, r.data)
    THEN [m EXCEPT !.req.pc = "location",
                   !.req.data = CleanedFields(m.locations, m.categories, r.data)]
    ELSE [m EXCEPT !.req.pc = "render",
                   !.locations = IF name = Empty \/ SlugTaken(m.locations, generate_slug(name))
                                 THEN m.locations
                                 ELSE Append(m.locations,
                                             NewLocation(name, generate_slug(name))),
                   !.req.errors = IF r.method = "POST"
                                  THEN PostFormErrors(m.locations, m.categories, r.data)
                                  ELSE {}]

\* line 244, 277: form.is_valid(), else the form is rendered again
StepValidate(m) ==
    LET r == m.req IN
    IF PostFormIsValid(m.locations, m.categories, r.method, r.data)
    THEN [m EXCEPT !.req.pc = "location",
                   !.req.data = CleanedFields(m.locations, m.categories, r.data)]
    ELSE [m EXCEPT !.req.pc = "render",
                   !.req.errors = IF r.method = "POST"
                                  THEN PostFormErrors(m.locations, m.categories, r.data)
                                  ELSE {}]

\* lines 252-256: the reference, or the exists() query on the free text
StepLocation(m) ==
    LET r == m.req IN
    IF r.data.location # None
    THEN [m EXCEPT !.req.location = r.data.location, !.req.pc = "category"]
    ELSE IF LocationsNamed(m.locations, r.data.location_user) # {}
    THEN [m EXCEPT !.req.pc = "location_get"]
    ELSE [m EXCEPT !.req.pc = "location_create"]

\* lines 257-258: Location.objects.get(name=...)
StepLocationGet(m) ==
    LET got == QueryGet(LocationsNamed(m.locations, m.req.data.location_user)) IN
    IF got.exc # "" THEN Fail(m, got.exc)
    ELSE [m EXCEPT !.req.location = got.pk, !.req.pc = "category"]

\* lines 260-261: Location.objects.create(name=..., slug=generate_slug(...))
StepLocationCreate(m) ==
    LET name == m.req.data.location_user
        slug == generate_slug(name) IN
    IF SlugTaken(m.locations, slug) THEN Fail(m, "IntegrityError")
    ELSE [m EXCEPT !.locations = Append(m.locations, NewLocation(name, slug)),
                   !.req.location = Len(m.locations) + 1,
                   !.req.created = m.req.created \cup {"location"},
                   !.req.pc = "category"]

\* lines 263-267: the reference, or the exists() query on the free text
StepCategory(m) ==
    LET r == m.req IN
    IF r.data.category # None
    THEN [m EXCEPT !.req.category = r.data.category, !.req.pc = "save"]
    ELSE IF CategoriesTitled(m.categories, r.data.category_user) # {}
    THEN [m EXCEPT !.req.pc = "category_get"]
    ELSE [m EXCEPT !.req.pc = "category_create"]

\* lines 268-269: Category.objects.get(name=...)
StepCategoryGet(m) ==
    LET got == CategoryGet(m.categories, "name", m.req.data.category_user) IN
    IF got.exc # "" THEN Fail(m, got.exc)
    ELSE [m EXCEPT !.req.category = got.pk, !.req.pc = "save"]

\* lines 271-272: Category.objects.create(title=..., slug=generate_slug(...))
StepCategoryCreate(m) ==
    LET title == m.req.data.category_user
        slug == generate_slug(title) IN
    IF SlugTaken(m.categories, slug) THEN Fail(m, "IntegrityError")
    ELSE [m EXCEPT !.categories = Append(m.categories, NewCategory(title, slug)),
                   !.req.category = Len(m.categories) + 1,
                   !.req.created = m.req.created \cup {"category"},
                   !.req.pc = "save"]

\* lines 274-275: post.save() and the redirect to the profile
StepSave(m) ==
    LET r == m.req IN
    [m EXCEPT !.posts = (m.nextPostId :> NewPost(r.user, r.data.pub_date,
                                                 r.location, r.category)) @@ m.posts,
              !.nextPostId = m.nextPostId + 1,
              !.req.post = m.nextPostId,
              !.req.pc = "redirect"]

CreatePostStep(m) ==
    CASE m.req.pc = "validate" -> StepValidate(m)
      [] m.req.pc = "location" -> StepLocation(m)
      [] m.req.pc = "location_get" -> StepLocationGet(m)
      [] m.req.pc = "location_create" -> StepLocationCreate(m)
      [] m.req.pc = "category" -> StepCategory(m)
      [] m.req.pc = "category_get" -> StepCategoryGet(m)
      [] m.req.pc = "category_create" -> StepCategoryCreate(m)
      [] m.req.pc = "save" -> StepSave(m)

\* the view run from its first line to its return, or to the exception it raises
RECURSIVE RunCreatePost(_)
RunCreatePost(m) ==
    IF m.req.pc \in Terminal THEN m ELSE RunCreatePost(CreatePostStep(m))

\* the response of a finished create_post request
CreatePostResponse(r) ==
    [Resp("create_post", r.user, r.pc) EXCEPT
        !.exc = r.exc, !.errors = r.errors, !.post = r.post, !.created = r.created,
        !.method = r.method, !.form = r.form,
        !.to = IF r.pc = "redirect" THEN "profile" ELSE ""]

----------------------------------------------------------------------------
(* The inputs of the requests *)

\* the (location, location_user) and (category, category_user) pairs submitted
BadPk == 9

LocationPairs ==
    {<<None, Empty>>, <<None, T_Blank>>, <<1, Empty>>, <<2, Empty>>, <<1, T_Tr>>,
     <<None, T_Tr>>, <<None, T_Zhe>>, <<None, T_zh>>, <<BadPk, Empty>>, <<BadPk, T_Tr>>}

CategoryPairs ==
    {<<None, Empty>>, <<1, Empty>>, <<2, Empty>>, <<1, T_Tr>>,
     <<None, T_Tr>>, <<None, T_Punct>>, <<None, T_a>>}

FormData(pub_date, lp, cp) ==
    [title |-> T_Title, pub_date |-> pub_date,
     location |-> lp[1], location_user |-> lp[2],
     category |-> cp[1], category_user |-> cp[2]]

PostData ==
    {FormData(t, lp, cp) : t \in Times, lp \in LocationPairs, cp \in CategoryPairs}

\* the forms submitted to edit_post
EditData ==
    {FormData(0, lp, cp) :
        lp \in {<<None, Empty>>, <<1, Empty>>, <<1, T_Tr>>, <<None, T_Tr>>},
        cp \in {<<None, Empty>>, <<1, Empty>>}}

\* the forms that put a post on a category page and a location page: each
\* side a shown row, a hidden row, or a new name
PagePostData ==
    {FormData(0, lp, cp) :
        lp \in {<<1, Empty>>, <<2, Empty>>, <<None, T_Tr>>},
        cp \in {<<1, Empty>>, <<2, Empty>>, <<None, T_Tr>>}}

\* a GET request carries no form data
GetData ==
    [title |-> Empty, pub_date |-> 0, location_user |-> Empty, location |-> None,
     category_user |-> Empty, category |-> None]

Usernames == Users \cup {"ghost"}
Slugs == {T_a, T_h, <<"t", "r">>, T_zh}
PostIds == 1..MaxPostId

----------------------------------------------------------------------------
(* The post handlers, each request handled from start to end *)

\* @login_required: an anonymous request is sent to the login page
login_required(op) ==
    /\ op \in {"create_post", "edit_post", "delete_post", "user_follow", "delete_follow",
              "add_comment", "edit_comment", "delete_comment"}
    /\ response' = Resp(op, Anonymous, "login")
    /\ UNCHANGED <<locations, categories, posts, nextPostId, comments, nextCommentId,
                   follows, nextFollowId, clock, workers>>

create_post(user, method, data) ==
    LET m == RunCreatePost([locations |-> locations, categories |-> categories,
                            posts |-> posts, nextPostId |-> nextPostId,
                            req |-> NewRequest(user, method, data)]) IN
    /\ nextPostId <= MaxPostId
    /\ locations' = m.locations
    /\ categories' = m.categories
    /\ posts' = m.posts
    /\ nextPostId' = m.nextPostId
    /\ response' = CreatePostResponse(m.req)
    /\ UNCHANGED <<comments, nextCommentId, follows, nextFollowId, clock, workers>>

\* the fields PostForm declares: the keys of form.cleaned_data
PostFormFields ==
    {"title", "text", "pub_date", "location_user", "location", "category_user",
     "category", "image"}

\* lines 305-324 of edit_post: the instance updated from cleaned_data and saved;
\* cleaned_data['is_published'] raises KeyError when the form has no such field
EditPostSave(user, post_id, data) ==
    LET cleaned == CleanedFields(locations, categories, data) IN
    IF "is_published" \notin PostFormFields
    THEN /\ posts' = posts
         /\ response' = [Resp("edit_post", user, "error") EXCEPT
                            !.exc = "KeyError", !.post = post_id,
                            !.method = "POST", !.form = FormOf(data)]
    ELSE /\ posts' = [posts EXCEPT ![post_id].pub_date = cleaned.pub_date,
                                   ![post_id].location = cleaned.location,
                                   ![post_id].category = cleaned.category]
         /\ response' = [Resp("edit_post", user, "redirect") EXCEPT
                            !.post = post_id, !.method = "POST", !.form = FormOf(data),
                            !.to = "post_detail"]

edit_post(user, post_id, method, data) ==
    /\ UNCHANGED <<locations, categories, nextPostId, comments, nextCommentId, follows,
                   nextFollowId, clock, workers>>
    /\ IF post_id \notin DOMAIN posts
       THEN /\ response' = Resp("edit_post", user, "not_found")
            /\ posts' = posts
       ELSE IF user # posts[post_id].author
       THEN /\ response' = [Resp("edit_post", user, "redirect") EXCEPT
                               !.exc = "not_author", !.post = post_id,
                               !.to = "post_detail"]
            /\ posts' = posts
       ELSE IF method # "POST"
       THEN /\ response' = [Resp("edit_post", user, "render") EXCEPT
                               !.post = post_id, !.method = method]
            /\ posts' = posts
       ELSE IF PostFormIsValid(locations, categories, method, data)
       THEN EditPostSave(user, post_id, data)
       ELSE /\ response' = [Resp("edit_post", user, "render") EXCEPT
                               !.post = post_id, !.method = method,
                               !.form = FormOf(data),
                               !.errors = PostFormErrors(locations, categories, data)]
            /\ posts' = posts

\* instance.delete() of a Post: Comment.post is on_delete=CASCADE
CommentsOf(post_id) == {c \in DOMAIN comments : comments[c].post = post_id}

delete_post(user, post_id, method) ==
    /\ UNCHANGED <<locations, categories, nextPostId, nextCommentId, follows,
                   nextFollowId, clock, workers>>
    /\ IF post_id \notin DOMAIN posts
       THEN /\ response' = Resp("delete_post", user, "not_found")
            /\ UNCHANGED <<posts, comments>>
       ELSE IF user # posts[post_id].author
       THEN /\ response' = [Resp("delete_post", user, "redirect") EXCEPT
                               !.exc = "not_author", !.post = post_id,
                               !.to = "post_detail"]
            /\ UNCHANGED <<posts, comments>>
       ELSE IF method = "POST"
       THEN /\ posts' = [i \in DOMAIN posts \ {post_id} |-> posts[i]]
            /\ comments' = [c \in DOMAIN comments \ CommentsOf(post_id) |-> comments[c]]
            /\ response' = [Resp("delete_post", user, "redirect") EXCEPT
                               !.post = post_id, !.to = "profile"]
       ELSE /\ response' = [Resp("delete_post", user, "render") EXCEPT !.post = post_id]
            /\ UNCHANGED <<posts, comments>>

----------------------------------------------------------------------------
(* The listings and the detail page *)

\* filter_posts: the posts among `ids` that are published in a published category
\* (the join on category drops a post whose category is NULL)
filter_posts(ids) ==
    {i \in ids : /\ posts[i].is_published
                 /\ posts[i].category # None
                 /\ categories[posts[i].category].is_published}

ReadOnly ==
    UNCHANGED <<locations, categories, posts, nextPostId, comments, nextCommentId,
                follows, nextFollowId, clock, workers>>

index ==
    /\ response' = [Resp("index", Anonymous, "ok") EXCEPT
                       !.items = filter_posts(DOMAIN posts)]
    /\ ReadOnly

post_detail(viewer, post_id) ==
    /\ response' =
          IF post_id \notin DOMAIN posts
          THEN Resp("post_detail", viewer, "not_found")
          ELSE IF viewer # posts[post_id].author
                  /\ post_id \notin filter_posts(DOMAIN posts)
          THEN [Resp("post_detail", viewer, "not_found") EXCEPT !.post = post_id]
          ELSE [Resp("post_detail", viewer, "ok") EXCEPT !.post = post_id]
    /\ ReadOnly

category_posts(viewer, category_slug) ==
    LET found == {c \in DOMAIN categories :
                     categories[c].is_published /\ categories[c].slug = category_slug} IN
    /\ response' =
          IF found = {}
          THEN [Resp("category_posts", viewer, "not_found") EXCEPT !.slug = category_slug]
          ELSE LET category == CHOOSE c \in found : TRUE IN
               [Resp("category_posts", viewer, "ok") EXCEPT
                   !.slug = category_slug,
                   !.target = category,
                   !.items = filter_posts({i \in DOMAIN posts :
                                              posts[i].category = category})]
    /\ ReadOnly

\* location_posts looking the slug up in Location.objects, hidden rows included
location_posts_all(viewer, location_slug) ==
    LET found == {l \in DOMAIN locations : locations[l].slug = location_slug} IN
    /\ response' =
          IF found = {}
          THEN [Resp("location_posts", viewer, "not_found") EXCEPT !.slug = location_slug]
          ELSE LET location == CHOOSE l \in found : TRUE IN
               [Resp("location_posts", viewer, "ok") EXCEPT
                   !.slug = location_slug,
                   !.target = location,
                   !.items = filter_posts({i \in DOMAIN posts :
                                              posts[i].location = location})]
    /\ ReadOnly

location_posts(viewer, location_slug) ==
    LET found == {l \in DOMAIN locations :
                     locations[l].is_published /\ locations[l].slug = location_slug} IN
    /\ response' =
          IF found = {}
          THEN [Resp("location_posts", viewer, "not_found") EXCEPT !.slug = location_slug]
          ELSE LET location == CHOOSE l \in found : TRUE IN
               [Resp("location_posts", viewer, "ok") EXCEPT
                   !.slug = location_slug,
                   !.target = location,
                   !.items = filter_posts({i \in DOMAIN posts :
                                              posts[i].location = location})]
    /\ ReadOnly

----------------------------------------------------------------------------
(* The follow handlers and the profile page *)

\* Follow.objects.filter(Q(user_id=user) & Q(following_id=following))
FollowRows(rows, user, following) ==
    {f \in DOMAIN rows : rows[f].user = user /\ rows[f].following = following}

user_profile(viewer, username) ==
    /\ response' =
          IF username \notin Users THEN Resp("user_profile", viewer, "not_found")
          ELSE [Resp("user_profile", viewer, "ok") EXCEPT
                   !.profile = username,
                   !.items = {i \in DOMAIN posts : posts[i].author = username},
                   !.is_subscriber = (FollowRows(follows, viewer, username) # {})]
    /\ ReadOnly

user_follow(user, username) ==
    /\ nextFollowId <= MaxFollowId
    /\ UNCHANGED <<locations, categories, posts, nextPostId, comments, nextCommentId,
                   clock, workers>>
    /\ IF username \notin Users
       THEN /\ response' = Resp("user_follow", user, "not_found")
            /\ UNCHANGED <<follows, nextFollowId>>
       ELSE /\ follows' = (nextFollowId :> [user |-> user, following |-> username])
                          @@ follows
            /\ nextFollowId' = nextFollowId + 1
            /\ response' = [Resp("user_follow", user, "redirect") EXCEPT
                               !.profile = username]

delete_follow(user, username) ==
    /\ UNCHANGED <<locations, categories, posts, nextPostId, comments, nextCommentId,
                   nextFollowId, clock, workers>>
    /\ IF username \notin Users
       THEN /\ response' = Resp("delete_follow", user, "not_found")
            /\ follows' = follows
       ELSE LET got == QueryGet(FollowRows(follows, user, username)) IN
            IF got.exc = "DoesNotExist"
            THEN /\ response' = [Resp("delete_follow", user, "not_found") EXCEPT
                                    !.profile = username]
                 /\ follows' = follows
            ELSE IF got.exc # ""
            THEN /\ response' = [Resp("delete_follow", user, "error") EXCEPT
                                    !.exc = got.exc, !.profile = username]
                 /\ follows' = follows
            ELSE /\ follows' = [f \in DOMAIN follows \ {got.pk} |-> follows[f]]
                 /\ response' = [Resp("delete_follow", user, "redirect") EXCEPT
                                    !.profile = username]

\* the passing of time
Tick ==
    /\ clock < MaxTime
    /\ clock' = clock + 1
    /\ UNCHANGED <<locations, categories, posts, nextPostId, comments, nextCommentId,
                   follows, nextFollowId, workers, response>>

----------------------------------------------------------------------------
(* The comment handlers *)

\* the texts submitted in a comment form
CommentTexts == {Empty, T_Blank, T_a, T_h}
CommentIds == 1..MaxCommentId

\* CommentForm.is_valid() of a bound form: the text is required, and stripped
CommentFormIsValid(text) == Strip(text) # Empty

add_comment(user, post_id, text) ==
    /\ nextCommentId <= MaxCommentId
    /\ UNCHANGED <<locations, categories, posts, nextPostId, follows, nextFollowId,
                   clock, workers>>
    /\ IF post_id \notin DOMAIN posts
       THEN /\ response' = Resp("add_comment", user, "not_found")
            /\ UNCHANGED <<comments, nextCommentId>>
       ELSE /\ response' = [Resp("add_comment", user, "redirect") EXCEPT
                               !.post = post_id, !.to = "post_detail",
                               !.comment = IF CommentFormIsValid(text)
                                           THEN nextCommentId ELSE None]
            /\ IF CommentFormIsValid(text)
               THEN /\ comments' = (nextCommentId :> [post |-> post_id, author |-> user,
                                                      text |-> Strip(text)]) @@ comments
                    /\ nextCommentId' = nextCommentId + 1
               ELSE UNCHANGED <<comments, nextCommentId>>

\* edit_comment without the test of request.user against instance.author
edit_comment_unchecked(user, post_id, comment_id, method, text) ==
    /\ UNCHANGED <<locations, categories, posts, nextPostId, nextCommentId, follows,
                   nextFollowId, clock, workers>>
    /\ IF comment_id \notin DOMAIN comments
       THEN /\ response' = Resp("edit_comment", user, "not_found")
            /\ comments' = comments
       ELSE IF method = "POST" /\ CommentFormIsValid(text)
       THEN /\ comments' = [comments EXCEPT ![comment_id].text = Strip(text),
                                            ![comment_id].author = user]
            /\ response' = [Resp("edit_comment", user, "redirect") EXCEPT
                               !.post = post_id, !.comment = comment_id,
                               !.to = "post_detail", !.method = method]
       ELSE /\ response' = [Resp("edit_comment", user, "render") EXCEPT
                               !.post = post_id, !.comment = comment_id,
                               !.method = method]
            /\ comments' = comments

edit_comment(user, post_id, comment_id, method, text) ==
    /\ UNCHANGED <<locations, categories, posts, nextPostId, nextCommentId, follows,
                   nextFollowId, clock, workers>>
    /\ IF comment_id \notin DOMAIN comments
       THEN /\ response' = Resp("edit_comment", user, "not_found")
            /\ comments' = comments
       ELSE IF user # comments[comment_id].author
       THEN /\ response' = [Resp("edit_comment", user, "redirect") EXCEPT
                               !.exc = "not_author", !.post = post_id,
                               !.comment = comment_id, !.to = "post_detail"]
            /\ comments' = comments
       ELSE IF method = "POST" /\ CommentFormIsValid(text)
       THEN /\ comments' = [comments EXCEPT ![comment_id].text = Strip(text),
                                            ![comment_id].author = user]
            /\ response' = [Resp("edit_comment", user, "redirect") EXCEPT
                               !.post = post_id, !.comment = comment_id,
                               !.to = "post_detail", !.method = method]
       ELSE /\ response' = [Resp("edit_comment", user, "render") EXCEPT
                               !.post = post_id, !.comment = comment_id,
                               !.method = method]
            /\ comments' = comments

delete_comment(user, post_id, comment_id, method) ==
    /\ UNCHANGED <<locations, categories, posts, nextPostId, nextCommentId, follows,
                   nextFollowId, clock, workers>>
    /\ IF comment_id \notin DOMAIN comments
       THEN /\ response' = Resp("delete_comment", user, "not_found")
            /\ comments' = comments
       ELSE IF user # comments[comment_id].author
       THEN /\ response' = [Resp("delete_comment", user, "redirect") EXCEPT
                               !.exc = "not_author", !.post = post_id,
                               !.comment = comment_id, !.to = "post_detail"]
            /\ comments' = comments
       ELSE IF method = "POST"
       THEN /\ comments' = [c \in DOMAIN comments \ {comment_id} |-> comments[c]]
            /\ response' = [Resp("delete_comment", user, "redirect") EXCEPT
                               !.post = post_id, !.comment = comment_id,
                               !.to = "post_detail", !.method = method]
       ELSE /\ response' = [Resp("delete_comment", user, "render") EXCEPT
                               !.post = post_id, !.comment = comment_id,
                               !.method = method]
            /\ comments' = comments

----------------------------------------------------------------------------
(* create_post on concurrent server workers, one step at a time *)

Workers == {"w1", "w2"}

ConcurrentPostData ==
    {d \in PostData : /\ d.title = T_Title
                      /\ d.pub_date = 0
                      /\ d.location = None
                      /\ d.location_user \in {T_Tr, T_zh}
                      /\ d.category_user = Empty
                      /\ d.category # None}

Begin(w, user, data) ==
    /\ workers[w].pc = "idle"
    /\ nextPostId <= MaxPostId
    /\ workers' = [workers EXCEPT ![w] = NewRequest(user, "POST", data)]
    /\ UNCHANGED <<locations, categories, posts, nextPostId, comments, nextCommentId,
                   follows, nextFollowId, clock, response>>

WorkerStep(w) ==
    /\ workers[w].pc \notin Terminal \cup {"idle"}
    /\ LET m == CreatePostStep([locations |-> locations, categories |-> categories,
                                posts |-> posts, nextPostId |-> nextPostId,
                                req |-> workers[w]]) IN
       /\ locations' = m.locations
       /\ categories' = m.categories
       /\ posts' = m.posts
       /\ nextPostId' = m.nextPostId
       /\ workers' = [workers EXCEPT ![w] = m.req]
    /\ UNCHANGED <<comments, nextCommentId, follows, nextFollowId, clock, response>>

Return(w) ==
    /\ workers[w].pc \in Terminal
    /\ response' = CreatePostResponse(workers[w])
    /\ workers' = [workers EXCEPT ![w] = Idle]
    /\ UNCHANGED <<locations, categories, posts, nextPostId, comments, nextCommentId,
                   follows, nextFollowId, clock>>

----------------------------------------------------------------------------
(* Specifications *)

\* the store as set up by the administrator: a published and a hidden location,
\* a published and a hidden category, and one post of u1 taken off publication
Init ==
    /\ locations = <<[name |-> T_zh, slug |-> T_zh, is_published |-> TRUE],
                     [name |-> T_h, slug |-> T_h, is_published |-> FALSE]>>
    /\ categories = <<[title |-> T_a, slug |-> T_a, is_published |-> TRUE],
                      [title |-> T_h, slug |-> T_h, is_published |-> FALSE]>>
    /\ posts = (1 :> [author |-> "u1", pub_date |-> 0, is_published |-> FALSE,
                      location |-> 1, category |-> 1])
    /\ nextPostId = 2
    /\ comments = <<>>
    /\ nextCommentId = 1
    /\ follows = <<>>
    /\ nextFollowId = 1
    /\ clock = 0
    /\ workers = [w \in Workers |-> Idle]
    /\ response = NoResponse

Next ==
    \/ \E op \in {"create_post", "edit_post", "delete_post"} : login_required(op)
    \/ \E u \in Users, d \in PostData : create_post(u, "POST", d)
    \/ \E u \in Users : create_post(u, "GET", GetData)
    \/ \E u \in Users, i \in PostIds, d \in EditData : edit_post(u, i, "POST", d)
    \/ \E u \in Users, i \in PostIds : edit_post(u, i, "GET", GetData)
    \/ \E u \in Users, i \in PostIds, me \in {"GET", "POST"} : delete_post(u, i, me)
    \/ index
    \/ \E v \in Viewers, i \in PostIds : post_detail(v, i)
    \/ \E v \in Viewers, sl \in Slugs : category_posts(v, sl)
    \/ \E v \in Viewers, sl \in Slugs : location_posts(v, sl)
    \/ Tick

Spec == Init /\ [][Next]_vars

NextFollow ==
    \/ \E op \in {"user_follow", "delete_follow"} : login_required(op)
    \/ \E u \in Users, n \in Usernames : user_follow(u, n)
    \/ \E u \in Users, n \in Usernames : delete_follow(u, n)
    \/ \E v \in Viewers, n \in Usernames : user_profile(v, n)

SpecFollow == Init /\ [][NextFollow]_vars

NextConcurrent ==
    \/ \E w \in Workers, u \in Users, d \in ConcurrentPostData : Begin(w, u, d)
    \/ \E w \in Workers : WorkerStep(w)
    \/ \E w \in Workers : Return(w)

SpecConcurrent == Init /\ [][NextConcurrent]_vars

NextPages ==
    \/ \E u \in Users, d \in PagePostData : create_post(u, "POST", d)
    \/ \E u \in Users, i \in PostIds : delete_post(u, i, "POST")
    \/ \E v \in Viewers, sl \in Slugs : category_posts(v, sl)
    \/ \E v \in Viewers, sl \in Slugs : location_posts(v, sl)

SpecPages == Init /\ [][NextPages]_vars

NextComments ==
    \/ \E op \in {"edit_post", "delete_post", "add_comment", "edit_comment",
                  "delete_comment"} : login_required(op)
    \/ \E u \in Users, i \in PostIds, t \in CommentTexts : add_comment(u, i, t)
    \/ \E u \in Users, i \in PostIds, c \in CommentIds, t \in CommentTexts :
          edit_comment(u, i, c, "POST", t)
    \/ \E u \in Users, i \in PostIds, c \in CommentIds : edit_comment(u, i, c, "GET", Empty)
    \/ \E u \in Users, i \in PostIds, c \in CommentIds, me \in {"GET", "POST"} :
          delete_comment(u, i, c, me)
    \/ \E u \in Users, i \in PostIds, d \in EditData : edit_post(u, i, "POST", d)
    \/ \E u \in Users, i \in PostIds : edit_post(u, i, "GET", GetData)
    \/ \E u \in Users, i \in PostIds, me \in {"GET", "POST"} : delete_post(u, i, me)

SpecComments == Init /\ [][NextComments]_vars

----------------------------------------------------------------------------
(* Properties *)

\* the visibility predicate: published, in a published category, not scheduled
PubliclyVisible(i) ==
    /\ posts[i].is_published
    /\ posts[i].category # None
    /\ categories[posts[i].category].is_published
    /\ posts[i].pub_date <= clock

\* the step is a request to `op` being handled (time does not pass within a request)
Handled(op) == response'.op = op /\ clock' = clock

\* a free text that is not blank
Given(text) == \E k \in 1..Len(text) : text[k] # " "

\* C1: the public listings (index, category page, location page) hold a post
\* if and only if it is published, its category is published and its pub_date
\* is not after the current time.
C1_ListingsHoldExactlyThePublicPosts ==
    [][/\ Handled("index") =>
            response'.items = {i \in DOMAIN posts : PubliclyVisible(i)}
       /\ Handled("category_posts") /\ response'.status = "ok" =>
            response'.items = {i \in DOMAIN posts :
                                  posts[i].category = response'.target /\ PubliclyVisible(i)}
       /\ Handled("location_posts") /\ response'.status = "ok" =>
            response'.items = {i \in DOMAIN posts :
                                  posts[i].location = response'.target /\ PubliclyVisible(i)}
      ]_vars

\* C2: post_detail answers the author with the post whatever its state, and
\* answers every other viewer not-found unless the post is publicly visible.
C2_DetailForAuthorOrPublic ==
    [][Handled("post_detail") /\ response'.post \in DOMAIN posts =>
          IF response'.user = posts[response'.post].author
          THEN response'.status = "ok"
          ELSE ~PubliclyVisible(response'.post) => response'.status = "not_found"
      ]_vars

\* C3: a submitted post form whose fields are each valid fails validation if and
\* only if zero or two of {location, location_user} are given or zero or two of
\* {category, category_user} are given; the both-given and the none-given case
\* put different messages on the field 'location' / 'category'.
C3_ExactlyOneOfEachPair ==
    LET f == response.form
        locBoth == f.location # None /\ Given(f.location_user)
        locNone == f.location = None /\ ~Given(f.location_user)
        catBoth == f.category # None /\ Given(f.category_user)
        catNone == f.category = None /\ ~Given(f.category_user)
    IN  (/\ response.op \in {"create_post", "edit_post"}
         /\ response.method = "POST"
         /\ f.location \in {None} \cup DOMAIN locations
         /\ f.category \in {None} \cup DOMAIN categories)
        =>
        /\ (response.status = "render" /\ response.errors # {})
              <=> (locBoth \/ locNone \/ catBoth \/ catNone)
        /\ locBoth <=> <<"location", ErrLocationBoth>> \in response.errors
        /\ locNone <=> <<"location", ErrLocationNone>> \in response.errors
        /\ catBoth <=> <<"category", ErrCategoryBoth>> \in response.errors
        /\ catNone <=> <<"category", ErrCategoryNone>> \in response.errors
        /\ ErrLocationBoth # ErrLocationNone
        /\ ErrCategoryBoth # ErrCategoryNone

C3_Witness ==
    /\ response.op = "create_post"
    /\ response.status = "render"
    /\ response.form.location = 1
    /\ response.form.location_user = T_Tr
    /\ response.form.category = None
    /\ response.form.category_user = Empty
    /\ response.errors = {<<"location", ErrLocationBoth>>, <<"category", ErrCategoryNone>>}

\* C4: a create_post or edit_post request that fails validation changes nothing
\* in the store: no Post, Location or Category is created or modified.
C4_InvalidFormChangesNothing ==
    [][(/\ response'.op \in {"create_post", "edit_post"}
        /\ clock' = clock
        /\ response'.status = "render"
        /\ response'.errors # {})
       => UNCHANGED <<locations, categories, posts, nextPostId>>
      ]_vars

C4_Witness ==
    /\ response.op = "create_post"
    /\ response.status = "render"
    /\ response.form.location_user = T_Tr
    /\ <<"location", ErrLocationBoth>> \in response.errors
    /\ LocationsNamed(locations, T_Tr) = {}

\* C5: a create_post request whose location_user names no existing Location
\* creates exactly one Location, with a slug no other Location has, and the
\* post refers to it; there is at most one Location per name.  (Stated for
\* requests that give the category by reference.)
C5_UnseenNameCreatesOneLocation ==
    [][LET f == response'.form
           new == Len(locations')
       IN  (/\ Handled("create_post")
            /\ response'.status \in {"redirect", "error"}
            /\ f.location = None
            /\ f.category # None
            /\ LocationsNamed(locations, f.location_user) = {})
           =>
           /\ new = Len(locations) + 1
           /\ locations'[new].name = f.location_user
           /\ \A k \in DOMAIN locations : locations[k].slug # locations'[new].slug
           /\ response'.post # None
           /\ posts'[response'.post].location = new
           /\ \A a, b \in DOMAIN locations' :
                 locations'[a].name = locations'[b].name => a = b
      ]_vars

\* C6: a valid create_post request that gives category_user and no category
\* reference, where a Category with exactly that title exists, succeeds, saves
\* the post with that Category and creates no Category.  (Stated for requests
\* that give the location by reference.)
C6_ExistingCategoryIsReused ==
    [][LET f == response'.form
           titled == CategoriesTitled(categories, f.category_user)
       IN  (/\ Handled("create_post")
            /\ response'.status \in {"redirect", "error"}
            /\ f.category = None
            /\ f.location # None
            /\ titled # {})
           =>
           /\ response'.status = "redirect"
           /\ categories' = categories
           /\ posts'[response'.post].category \in titled
      ]_vars

\* C7: one create_post request creates at most one Location and at most one
\* Category, and none where it gives the reference, which the post then
\* carries; a Category created from the text T is the row (title T, slug
\* generate_slug(T), published), the title "Tr" giving the slug "tr", and so
\* is a Location created from location_user.
C7_AtMostOneEachAsSubmitted ==
    [][LET f == response'.form
           nl == Len(locations)
           nc == Len(categories)
       IN  Handled("create_post") =>
           /\ Len(locations') \in {nl, nl + 1}
           /\ Len(categories') \in {nc, nc + 1}
           /\ SubSeq(locations', 1, nl) = locations
           /\ SubSeq(categories', 1, nc) = categories
           /\ f.location # None => locations' = locations
           /\ f.category # None => categories' = categories
           /\ (response'.status = "redirect" /\ f.location # None)
                 => posts'[response'.post].location = f.location
           /\ (response'.status = "redirect" /\ f.category # None)
                 => posts'[response'.post].category = f.category
           /\ Len(categories') = nc + 1 =>
                 /\ CategoriesTitled(categories, f.category_user) = {}
                 /\ categories'[nc + 1] =
                       [title |-> f.category_user,
                        slug |-> generate_slug(f.category_user),
                        is_published |-> TRUE]
                 /\ f.category_user = T_Tr => categories'[nc + 1].slug = <<"t", "r">>
           /\ Len(locations') = nl + 1 =>
                 /\ LocationsNamed(locations, f.location_user) = {}
                 /\ locations'[nl + 1] =
                       [name |-> f.location_user,
                        slug |-> generate_slug(f.location_user),
                        is_published |-> TRUE]
                 /\ f.location_user = T_Tr => locations'[nl + 1].slug = <<"t", "r">>
      ]_vars

C7_Witness ==
    /\ response.op = "create_post"
    /\ response.status = "redirect"
    /\ response.created = {"location", "category"}
    /\ response.form.category_user = T_Tr
    /\ posts[response.post].category = Len(categories)
    /\ categories[Len(categories)] =
          [title |-> T_Tr, slug |-> <<"t", "r">>, is_published |-> TRUE]
    /\ posts[response.post].location = Len(locations)
    /\ locations[Len(locations)].name = T_Tr

\* C8: two concurrent create_post requests with the same unseen free-text
\* location name leave exactly one Location of that name and neither request
\* fails: no request ends in an error while a Location of its name exists.
C8_LookupThenCreateIsOneOperation ==
    /\ \A a, b \in DOMAIN locations :
          locations[a].name = locations[b].name => a = b
    /\ \A w \in Workers :
          workers[w].pc = "error" =>
             LocationsNamed(locations, workers[w].data.location_user) = {}

\* C9: user_follow(A, B) makes is_following(A, B) true, and a delete_follow(A, B)
\* that follows it makes it false, whatever was followed and unfollowed before.
C9_FollowThenUnfollow ==
    [][/\ (response'.op = "user_follow" /\ response'.status = "redirect")
             => FollowRows(follows', response'.user, response'.profile) # {}
       /\ (/\ response.op = "user_follow"
           /\ response.status = "redirect"
           /\ response'.op = "delete_follow"
           /\ response'.user = response.user
           /\ response'.profile = response.profile)
             => FollowRows(follows', response.user, response.profile) = {}
      ]_vars

\* C10: delete_follow(user, target) deletes the edge user -> target when one
\* exists, answers not-found and changes nothing when none exists, and never
\* deletes an edge of another follower or to another followed user.
C10_DeleteFollowDeletesTheEdge ==
    [][(/\ response'.op = "delete_follow"
        /\ response'.user \in Users
        /\ response'.profile \in Users)
       =>
       LET before == FollowRows(follows, response'.user, response'.profile)
           after == FollowRows(follows', response'.user, response'.profile)
       IN  /\ before # {} => Cardinality(after) < Cardinality(before)
           /\ before = {} => follows' = follows /\ response'.status = "not_found"
           /\ \A f \in DOMAIN follows \ before :
                 f \in DOMAIN follows' /\ follows'[f] = follows[f]
      ]_vars

\* C11: a category page or location page answers not-found whenever no record
\* with the slug exists or the record has is_published = FALSE, whoever the
\* viewer is and however many visible posts it has; the page is shown
\* (for the record with that slug) only when is_published = TRUE.
C11_HiddenPagesAreNotFound ==
    [][/\ Handled("category_posts") =>
            LET rows == {c \in DOMAIN categories : categories[c].slug = response'.slug} IN
            /\ response'.status \in {"ok", "not_found"}
            /\ (rows = {} \/ \A c \in rows : ~categories[c].is_published)
                  => response'.status = "not_found"
            /\ response'.status = "ok" =>
                  response'.target \in rows /\ categories[response'.target].is_published
            /\ (\E c \in rows : categories[c].is_published) => response'.status = "ok"
       /\ Handled("location_posts") =>
            LET rows == {l \in DOMAIN locations : locations[l].slug = response'.slug} IN
            /\ response'.status \in {"ok", "not_found"}
            /\ (rows = {} \/ \A l \in rows : ~locations[l].is_published)
                  => response'.status = "not_found"
            /\ response'.status = "ok" =>
                  response'.target \in rows /\ locations[response'.target].is_published
            /\ (\E l \in rows : locations[l].is_published) => response'.status = "ok"
      ]_vars

\* a signed-in viewer is refused the page of a hidden location that has a
\* publicly visible post
C11_Witness ==
    /\ response.op = "location_posts"
    /\ response.user \in Users
    /\ response.status = "not_found"
    /\ \E l \in DOMAIN locations :
          /\ locations[l].slug = response.slug
          /\ ~locations[l].is_published
          /\ \E i \in DOMAIN posts :
                /\ posts[i].location = l
                /\ PubliclyVisible(i)
                /\ posts[i].author # response.user

\* C12: edit_post or delete_post on a Post, or edit_comment or delete_comment
\* on a Comment, by a signed-in user who is not its author is answered with a
\* redirect to the post detail view and leaves the whole store unchanged; a
\* Post is modified or deleted only by its author's edit_post / delete_post on
\* it, and a Comment only by its author's edit_comment / delete_comment on it
\* (or together with its Post, when the Post's author deletes the Post).
C12_OnlyTheAuthorModifies ==
    [][LET r == response' IN
       /\ (/\ r.op \in {"edit_post", "delete_post"}
           /\ r.user \in Users
           /\ r.post \in DOMAIN posts
           /\ r.user # posts[r.post].author)
          => /\ r.status = "redirect"
             /\ r.to = "post_detail"
             /\ UNCHANGED <<locations, categories, posts, nextPostId, comments,
                            nextCommentId, follows, nextFollowId>>
       /\ (/\ r.op \in {"edit_comment", "delete_comment"}
           /\ r.user \in Users
           /\ r.comment \in DOMAIN comments
           /\ r.user # comments[r.comment].author)
          => /\ r.status = "redirect"
             /\ r.to = "post_detail"
             /\ UNCHANGED <<locations, categories, posts, nextPostId, comments,
                            nextCommentId, follows, nextFollowId>>
       /\ \A i \in DOMAIN posts :
             (i \notin DOMAIN posts' \/ posts'[i] # posts[i])
             => /\ r.op \in {"edit_post", "delete_post"}
                /\ r.post = i
                /\ r.user = posts[i].author
       /\ \A c \in DOMAIN comments :
             (c \notin DOMAIN comments' \/ comments'[c] # comments[c])
             => \/ /\ r.op \in {"edit_comment", "delete_comment"}
                   /\ r.comment = c
                   /\ r.user = comments[c].author
                \/ /\ r.op = "delete_post"
                   /\ r.post = comments[c].post
                   /\ r.post \notin DOMAIN posts'
                   /\ r.user = posts[r.post].author
      ]_vars

\* a user who did not write the comment has requested delete_comment and was
\* redirected to the post detail view, the comment still being there
C12_Witness ==
    /\ response.op = "delete_comment"
    /\ response.status = "redirect"
    /\ response.to = "post_detail"
    /\ response.comment \in DOMAIN comments
    /\ response.user \in Users
    /\ response.user # comments[response.comment].author

C14_NoEmptySlug ==
    [][Handled("create_post") =>
          LET f == response'.form IN
          /\ \A l \in DOMAIN locations' : locations'[l].slug # Empty
          /\ \A c \in DOMAIN categories' : categories'[c].slug # Empty
          /\ (/\ response'.status \in {"redirect", "error"}
              /\ \/ f.location = None /\ generate_slug(Strip(f.location_user)) = Empty
                 \/ f.category = None /\ generate_slug(Strip(f.category_user)) = Empty)
             => /\ response'.status = "error"
                /\ UNCHANGED <<locations, categories, posts>>
      ]_vars

====
